---- MODULE Spec2Model ----
(***************************************************************************)
(* Model of the rinova-api medical-coding service: the note store and its  *)
(* repository (app/repositories/medical_notes.py), the extract and batch   *)
(* endpoints (app/routers/code_extraction.py), the maintenance operations  *)
(* (app/routers/admin.py), the response-parsing of the OpenAI service      *)
(* (app/services/openai_service.py) and the pydantic record validation     *)
(* (app/models/pydantic_models.py).                                        *)
(*                                                                         *)
(* Reading of the source.  The files of the repository come from different *)
(* revisions and do not link: the repository reads db.medical_notes on an  *)
(* object that declares no such attribute, create_note writes              *)
(* ExtractionStatus.PROCESSING which the enumeration does not declare, the *)
(* router reads patient_id/source/metadata from a request class that       *)
(* declares medical_text only, and it calls extract_medical_codes, which   *)
(* no file defines.  Read literally no operation runs at all.  The model   *)
(* therefore reads every USE of an undeclared name as the use site writes  *)
(* it (db.medical_notes is the notes collection, PROCESSING is the status  *)
(* "processing", the request carries the three fields), takes the missing  *)
(* extract_medical_codes from the specification's section 4.1, and models  *)
(* everything a file of src/ does define exactly as defined.               *)
(*                                                                         *)
(* Encodings.  Optional values are sequences of length <= 1 (<<>> is       *)
(* None).  A JSON field of an untrusted payload is a string, with Absent   *)
(* for a missing key; a JSON confidence is a record [k, v] whose kind k is *)
(* "absent", "text" (a non-numeric value) or "num", v being the number in  *)
(* tenths (10 is 1.0).  Texts are sequences of characters.                 *)
(***************************************************************************)
EXTENDS Integers, Sequences, FiniteSets, TLC

\* ------------------------------------------------------------------ bounds
MaxReqs == 2
MaxRepoNotes == 2
MaxCodes == 2
MaxAttempts == 2

\* --------------------------------------------------------- program constants
ConfLo == 0
ConfHi == 10
MinLength == 1
DefaultConfidence == 5

Absent == "<absent>"
None == <<>>
Some(x) == <<x>>

\* SeqsUpTo(S, n): the sequences over S of length at most n
SeqsUpTo(S, n) == UNION {[1..k -> S] : k \in 0..n}

RECURSIVE SelectSeqBy(_, _)
\* the subsequence of s of the elements e with Keep(e) -- written out for records
SelectSeqBy(s, keep) ==
    IF s = <<>> THEN <<>>
    ELSE IF Head(s) \in keep THEN <<Head(s)>> \o SelectSeqBy(Tail(s), keep)
    ELSE SelectSeqBy(Tail(s), keep)

Range(s) == {s[i] : i \in 1..Len(s)}

\* ------------------------------------------------------- untrusted payloads
Num(n) == [k |-> "num", v |-> n]
ConfAbsent == [k |-> "absent", v |-> 0]
ConfText == [k |-> "text", v |-> 0]

RawCodes == {Absent, "", "E11.9"}
RawDescriptions == {Absent, "d"}
RawConfidences == {ConfAbsent, ConfText, Num(0 - 5), Num(9), Num(15)}
RawPrimaries == {Absent, "true"}

\* one entry of icd10_codes / cpt_codes as the text-generation service wrote it
RawEntries ==
    {e \in [code : RawCodes, description : RawDescriptions,
            confidence : RawConfidences, primary : RawPrimaries] :
        (e.description = Absent) <=> (e.primary = Absent)}

RawSeverities == {Absent, "MAJOR"}
RawGaps == [severity : RawSeverities, description : RawDescriptions]

\* the top-level shape of what the service returned
Tops == {"document", "array", "scalar", "notjson"}

Payload(top, icd, cpt, gaps) ==
    [top |-> top, icd10_codes |-> icd, cpt_codes |-> cpt, documentation_gaps |-> gaps]

\* ------------------------------------------- pydantic records (as declared)
\* ICD10Code: code, description, confidence (ge 0, le 1) and primary are required
ValidICD10Code(e) ==
    /\ e.code # Absent
    /\ e.description # Absent
    /\ e.confidence.k = "num"
    /\ e.confidence.v >= ConfLo
    /\ e.confidence.v <= ConfHi
    /\ e.primary # Absent

\* CPTCode: code, description and confidence (ge 0, le 1) are required;
\* evidence and alternative_codes default; extra keys are ignored
ValidCPTCode(e) ==
    /\ e.code # Absent
    /\ e.description # Absent
    /\ e.confidence.k = "num"
    /\ e.confidence.v >= ConfLo
    /\ e.confidence.v <= ConfHi

\* DocumentationGap: severity and description are required
ValidDocumentationGap(g) ==
    /\ g.severity # Absent
    /\ g.description # Absent

\* a record that keeps the confidence as a percentage
ICD10CodePercent(e) ==
    [code |-> e.code, description |-> e.description,
     confidence |-> e.confidence.v * 10, primary |-> (e.primary = "true")]

ICD10Code(e) ==
    [code |-> e.code, description |-> e.description,
     confidence |-> e.confidence.v, primary |-> (e.primary = "true")]

CPTCode(e) ==
    [code |-> e.code, description |-> e.description, confidence |-> e.confidence.v]

DocumentationGap(g) == [severity |-> g.severity, description |-> g.description]

\* the list comprehensions [ICD10Code(**code) for code in ...]
ICD10Codes(s) == [i \in 1..Len(s) |-> ICD10Code(s[i])]
CPTCodes(s) == [i \in 1..Len(s) |-> CPTCode(s[i])]
DocumentationGaps(s) == [i \in 1..Len(s) |-> DocumentationGap(s[i])]

\* ------------------------------------ OpenAIService.extract_codes (parsing)
Ok(v) == [ok |-> TRUE, value |-> Some(v), error |-> None]
Err(msg) == [ok |-> FALSE, value |-> None, error |-> Some(msg)]

\* the result record of extract_codes (the other categories are not in the payloads)
CodeExtractionResult(icd, cpt) == [icd10_codes |-> icd, cpt_codes |-> cpt]

extract_codes(p) ==
    IF p.top = "notjson"
    THEN Err("Failed to parse OpenAI response as JSON")
    ELSE IF p.top # "document"
    THEN Err("Failed to process OpenAI response")
    ELSE IF /\ \A i \in 1..Len(p.icd10_codes) : ValidICD10Code(p.icd10_codes[i])
            /\ \A i \in 1..Len(p.cpt_codes) : ValidCPTCode(p.cpt_codes[i])
    THEN Ok(CodeExtractionResult(ICD10Codes(p.icd10_codes),
                                 CPTCodes(p.cpt_codes)))
    ELSE Err("Failed to process OpenAI response")

\* --------------------- extract_medical_codes (not in src; specification 4.1)
Clamp(c) ==
    IF c.k # "num" THEN DefaultConfidence
    ELSE IF c.v < ConfLo THEN ConfLo
    ELSE IF c.v > ConfHi THEN ConfHi
    ELSE c.v

StrOf(x) == IF x = Absent THEN "" ELSE x

Lower(x) == IF x = "MAJOR" THEN "major" ELSE x

SanitizeEntry(e) ==
    [code |-> StrOf(e.code), description |-> StrOf(e.description),
     confidence |-> Num(Clamp(e.confidence)),
     primary |-> IF e.primary = "true" THEN "true" ELSE "false"]

SanitizeGap(g) ==
    [severity |-> IF g.severity = Absent THEN "minor" ELSE Lower(g.severity),
     description |-> StrOf(g.description)]

RECURSIVE SanitizeEntries(_)
SanitizeEntries(s) ==
    IF s = <<>> THEN <<>>
    ELSE IF StrOf(Head(s).code) = "" THEN SanitizeEntries(Tail(s))
    ELSE <<SanitizeEntry(Head(s))>> \o SanitizeEntries(Tail(s))

extract_medical_codes(p) ==
    IF p.top # "document"
    THEN Err("InvalidFormat")
    ELSE Ok([note_type |-> "brief",
             icd10_codes |-> SanitizeEntries(p.icd10_codes),
             cpt_codes |-> SanitizeEntries(p.cpt_codes),
             documentation_gaps |-> [i \in 1..Len(p.documentation_gaps) |-> SanitizeGap(p.documentation_gaps[i])]])

\* ------------------------------------------------------------ the note store
Texts == {<<>>, <<"a">>, <<"ctl">>}
EndpointTexts == {<<>>, <<"a">>}
PatientIds == {None, Some("P1")}

\* ExtractionStatus (the enumeration as declared)
ExtractionStatus == {"pending", "in_progress", "completed", "failed"}

\* the days at which things happen, and the cleanup's days parameter (ge=7)
TimePoints == {0, 8}
MinDays == 7
DaysArgs == {MinDays, MinDays + 1}

\* the notes the endpoints can create: one per request
MaxNotes == MaxReqs
\* a note id string that is no ObjectId
BadId == 0

\* ord(char) >= 32 keeps a character
StripControl(t) == SelectSeqBy(t, {"a"})

\* _basic_sanitize over the fields of note_data that the model keeps:
\* raises ValueError on a missing patient_id (an empty one is not among the
\* inputs) or an empty note_text, and strips control characters from strings
basic_sanitize_raises(data) ==
    \/ data.patient_id = None
    \/ data.note_text = <<>>

basic_sanitize(data) ==
    [note_text |-> StripControl(data.note_text), patient_id |-> data.patient_id]

\* the status create_note writes (ExtractionStatus.PROCESSING.value)
CreatedStatus == "processing"

\* create_note: the result of the call and the store after it.  db_ok is
\* whether the store's insert_one succeeds
create_note(st, nid, data, now, db_ok) ==
    IF basic_sanitize_raises(data)
    THEN [raised |-> TRUE, id |-> BadId, store |-> st, next_id |-> nid]
    ELSE IF ~db_ok
    THEN [raised |-> TRUE, id |-> BadId, store |-> st, next_id |-> nid]
    ELSE [raised |-> FALSE, id |-> nid, next_id |-> nid + 1,
          store |-> [i \in DOMAIN st \cup {nid} |->
                       IF i = nid
                       THEN [note_text |-> basic_sanitize(data).note_text,
                             patient_id |-> basic_sanitize(data).patient_id,
                             created_at |-> now,
                             updated_at |-> now,
                             status |-> CreatedStatus,
                             extraction_attempts |-> 0,
                             extraction |-> None,
                             has_documentation_gaps |-> None]
                       ELSE st[i]]]

\* an update without the $inc of extraction_attempts
UpdatedNoteNoInc(n, extraction_data, now) ==
    [n EXCEPT !.extraction = Some(extraction_data),
              !.status = "completed",
              !.updated_at = now,
              !.has_documentation_gaps =
                  IF extraction_data.documentation_gaps # <<>> THEN Some(TRUE) ELSE @]

\* the $set / $inc of update_extraction applied to one stored note
UpdatedNote(n, extraction_data, now) ==
    [n EXCEPT !.extraction = Some(extraction_data),
              !.status = "completed",
              !.updated_at = now,
              !.has_documentation_gaps =
                  IF extraction_data.documentation_gaps # <<>> THEN Some(TRUE) ELSE @,
              !.extraction_attempts = @ + 1]

\* an update that applies to a note only once: a completed note is not matched
update_extraction_once(st, note_id, extraction_data, now, db_ok) ==
    IF note_id = BadId
    THEN [raised |-> FALSE, ret |-> FALSE, store |-> st]
    ELSE IF ~db_ok
    THEN [raised |-> TRUE, ret |-> FALSE, store |-> st]
    ELSE IF note_id \notin DOMAIN st \/ st[note_id].status = "completed"
    THEN [raised |-> FALSE, ret |-> FALSE, store |-> st]
    ELSE [raised |-> FALSE, ret |-> TRUE,
          store |-> [st EXCEPT ![note_id] = UpdatedNote(@, extraction_data, now)]]

\* update_extraction: ret is the returned bool (modified_count > 0)
update_extraction(st, note_id, extraction_data, now, db_ok) ==
    IF note_id = BadId
    THEN [raised |-> FALSE, ret |-> FALSE, store |-> st]
    ELSE IF ~db_ok
    THEN [raised |-> TRUE, ret |-> FALSE, store |-> st]
    ELSE IF note_id \notin DOMAIN st
    THEN [raised |-> FALSE, ret |-> FALSE, store |-> st]
    ELSE [raised |-> FALSE, ret |-> TRUE,
          store |-> [st EXCEPT ![note_id] = UpdatedNote(@, extraction_data, now)]]

\* ------------------------------------------------- the extract endpoint
Success(data) == [success |-> TRUE, data |-> Some(data), error |-> None]
Failure(msg) == [success |-> FALSE, data |-> None, error |-> Some(msg)]

Metadata(text) == [model_version |-> "1.0", note_length |-> Len(text)]

\* ExtractionData(...) validates every entry against its declared record
ExtractionDataValid(d) ==
    /\ \A i \in 1..Len(d.icd10_codes) : ValidICD10Code(d.icd10_codes[i])
    /\ \A i \in 1..Len(d.cpt_codes) : ValidCPTCode(d.cpt_codes[i])
    /\ \A i \in 1..Len(d.documentation_gaps) :
          ValidDocumentationGap(d.documentation_gaps[i])

ExtractionData(d, text) ==
    [note_type |-> d.note_type,
     icd10_codes |-> ICD10Codes(d.icd10_codes),
     cpt_codes |-> CPTCodes(d.cpt_codes),
     documentation_gaps |-> DocumentationGaps(d.documentation_gaps),
     metadata |-> Metadata(text)]

\* ExtractionRequest: medical_text has min_length 1
ExtractionRequestValid(text) == Len(text) >= MinLength

\* extract_codes of the router up to the await of the extraction call:
\* note_data, create_note, the note_id check
extract_start(st, nid, text, pid, now, db_ok) ==
    LET c == create_note(st, nid, [note_text |-> text, patient_id |-> pid], now, db_ok)
    IN IF c.raised
       THEN [pc |-> "done", resp |-> Some(Failure("create_note raised")),
             note_id |-> BadId, store |-> st, next_id |-> nid]
       ELSE [pc |-> "calling", resp |-> None,
             note_id |-> c.id, store |-> c.store, next_id |-> c.next_id]

\* a handler without the except clauses: the exception leaves the handler
extract_reraise(msg) == [pc |-> "raised", resp |-> None]

\* the handler's except clauses: every Exception becomes a failure response
extract_except(msg) == [pc |-> "done", resp |-> Some(Failure(msg))]

\* a handler that answers with the data without writing it to the note
extract_finish_unsaved(st, text, note_id, outcome, now, db_ok) ==
    LET x == extract_medical_codes(outcome)
    IN IF ~x.ok
       THEN [store |-> st] @@ extract_except(x.error[1])
       ELSE IF ~ExtractionDataValid(x.value[1])
       THEN [store |-> st] @@ extract_except("validation error")
       ELSE [store |-> st, pc |-> "done",
             resp |-> Some(Success(ExtractionData(x.value[1], text)))]

\* extract_codes of the router from the return of the extraction call:
\* ExtractionData, update_extraction, the response
extract_finish(st, text, note_id, outcome, now, db_ok) ==
    LET x == extract_medical_codes(outcome)
    IN IF ~x.ok
       THEN [store |-> st] @@ extract_except(x.error[1])
       ELSE IF ~ExtractionDataValid(x.value[1])
       THEN [store |-> st] @@ extract_except("validation error")
       ELSE LET data == ExtractionData(x.value[1], text)
                u == update_extraction(st, note_id, data, now, db_ok)
            IN IF u.raised
               THEN [store |-> st] @@ extract_except("update_extraction raised")
               ELSE IF ~u.ret
               THEN [store |-> st] @@ extract_except("Failed to update note")
               ELSE [store |-> u.store, pc |-> "done", resp |-> Some(Success(data))]

\* what the text-generation call can come back with in the endpoint model:
\* a payload, or an error of the call itself (top "error")
GoodEntry == [code |-> "E11.9", description |-> "d", confidence |-> Num(9), primary |-> "true"]
HighEntry == [code |-> "E11.9", description |-> Absent, confidence |-> Num(15), primary |-> Absent]
EmptyEntry == [code |-> "", description |-> Absent, confidence |-> Num(9), primary |-> Absent]
GapEntry == [severity |-> "MAJOR", description |-> "d"]

ServiceOutcomes ==
    {Payload("document", <<HighEntry, GoodEntry>>, <<EmptyEntry>>, <<GapEntry>>),
     Payload("array", <<>>, <<>>, <<>>),
     Payload("error", <<>>, <<>>, <<>>)}

\* ------------------------------------------------------------------ state
VARIABLES
    store,      \* the notes collection: note id -> document
    next_id,    \* the next id the store assigns
    now,        \* the clock, in days
    req,        \* the extract requests: slot -> handler state
    batch,      \* the batch request
    admin,      \* the reprocess operation between its find and its update_many
    san_in,     \* a payload handed to OpenAIService.extract_codes
    san_out,    \* what extract_codes returned for it
    q_in,       \* a read-only request: its operation and arguments
    q_out,      \* what the read-only request returned
    upd,        \* the update_extraction calls in flight: caller -> call state
    system_status_cache,  \* the module-level health cache of main.py
    hc          \* the check_system_health calls: caller -> call state

vars ==
    <<store, next_id, now, req, batch, admin, san_in, san_out, q_in, q_out, upd,
      system_status_cache, hc>>

Reqs == 1..MaxReqs

\* no read-only request
NoQuery == [op |-> "none"]

\* the two callers of update_extraction that can run at the same time
Callers == {"c1", "c2"}

\* seq is the position of the call's update_one among the applied ones
IdleCall ==
    [pc |-> "idle", note_id |-> BadId, data |-> None, ret |-> FALSE, seq |-> 0]

\* system_status_cache = {"last_check": None, "status": None}
EmptyCache == [last_check |-> None, status |-> None]

\* probed records whether the call ran the store and text-generation probes
IdleHealth == [pc |-> "idle", current_time |-> 0, result |-> None, probed |-> FALSE]

\* got and db_failed record what happened to the request's own calls: the top
\* of what the text-generation call returned and whether a store call failed
IdleReq ==
    [pc |-> "idle", text |-> <<>>, patient_id |-> None, note_id |-> BadId,
     silent |-> FALSE, resp |-> None, got |-> "none", db_failed |-> FALSE]

LegacyStatuses == {"pending", "in_progress", "failed"}

\* a note an earlier deployment left in the collection
LegacyNote(status) ==
    [note_text |-> <<"a">>, patient_id |-> Some("P1"),
     created_at |-> 0, updated_at |-> 0, status |-> status,
     extraction_attempts |-> IF status = "pending" THEN 0 ELSE 1,
     extraction |-> None, has_documentation_gaps |-> None]

\* the collections the service can start with: empty, or one legacy note
LegacyStores == {<<>>} \cup {<<LegacyNote(s)>> : s \in LegacyStatuses}

InitSystem(stores) ==
    /\ store \in stores
    /\ next_id = Len(store) + 1
    /\ now = 0
    /\ req = [r \in Reqs |-> IdleReq]
    /\ batch = [pc |-> "idle", texts |-> <<>>, items |-> <<>>, resp |-> <<>>]
    /\ admin = [pc |-> "idle", ids |-> {}]
    /\ q_in = NoQuery
    /\ q_out = None
    /\ upd = [c \in Callers |-> IdleCall]
    /\ system_status_cache = EmptyCache
    /\ hc = [c \in Callers |-> IdleHealth]

\* the service starts on an empty collection
Init ==
    /\ InitSystem({<<>>})
    /\ san_in = Payload("scalar", <<>>, <<>>, <<>>)
    /\ san_out = None

\* the lowest free request slot
FreeSlot(r) == req[r].pc = "idle" /\ \A q \in 1..(r - 1) : req[q].pc # "idle"

\* POST /extract arrives: the framework validates the body, then calls the handler
Submit(r, text, pid) ==
    /\ FreeSlot(r)
    /\ req' = [req EXCEPT ![r] =
                 [IdleReq EXCEPT !.pc = IF ExtractionRequestValid(text)
                                        THEN "queued" ELSE "rejected",
                                 !.text = text, !.patient_id = pid]]
    /\ UNCHANGED <<store, next_id, now, batch, admin, san_in, san_out, q_in, q_out, upd, system_status_cache, hc>>

\* the handler runs to its first await on the text-generation service
Start(r, db_ok) ==
    /\ req[r].pc = "queued"
    /\ next_id <= MaxNotes
    /\ LET s == extract_start(store, next_id, req[r].text, req[r].patient_id, now, db_ok)
       IN /\ store' = s.store
          /\ next_id' = s.next_id
          /\ req' = [req EXCEPT ![r].pc = s.pc, ![r].resp = s.resp,
                                ![r].note_id = s.note_id, ![r].db_failed = ~db_ok]
    /\ UNCHANGED <<now, batch, admin, san_in, san_out, q_in, q_out, upd, system_status_cache, hc>>

\* the text-generation service stops answering this call
GoSilent(r) ==
    /\ req[r].pc = "calling"
    /\ ~req[r].silent
    /\ req' = [req EXCEPT ![r].silent = TRUE]
    /\ UNCHANGED <<store, next_id, now, batch, admin, san_in, san_out, q_in, q_out, upd, system_status_cache, hc>>

\* the call comes back and the handler runs to its return
Finish(r, outcome, db_ok) ==
    /\ req[r].pc = "calling"
    /\ ~req[r].silent
    /\ LET f == extract_finish(store, req[r].text, req[r].note_id, outcome, now, db_ok)
       IN /\ store' = f.store
          /\ req' = [req EXCEPT ![r].pc = f.pc, ![r].resp = f.resp,
                                ![r].got = outcome.top,
                                ![r].db_failed = (outcome.top = "document" /\ ~db_ok)]
    /\ UNCHANGED <<next_id, now, batch, admin, san_in, san_out, q_in, q_out, upd, system_status_cache, hc>>

\* ------------------------------------------------------ the batch endpoint
MaxBatch == MaxReqs
BatchTexts == SeqsUpTo({<<>>, <<"a">>, <<"a", "a">>}, MaxBatch)

\* batch_extract_codes before the gather: BatchExtractionRequest wants at least
\* one text (the framework rejects the body otherwise); the list comprehension
\* builds one ExtractionRequest per text, whose validation error is not caught
batch_intake(texts) ==
    IF Len(texts) < 1 THEN "rejected"
    ELSE IF \E i \in 1..Len(texts) : ~ExtractionRequestValid(texts[i]) THEN "raised"
    ELSE "running"

\* a batch that keeps the responses of the successful tasks only
completed_results(rq, items) ==
    SelectSeq([i \in 1..Len(items) |->
                  IF rq[items[i]].pc = "done" THEN rq[items[i]].resp[1]
                  ELSE Failure("exception")],
              LAMBDA x : x.success)

\* the responses of the gathered tasks, in the order of the tasks
\* (an exception a task let out becomes a failure response)
batch_results(rq, items) ==
    [i \in 1..Len(items) |->
        IF rq[items[i]].pc = "done" THEN rq[items[i]].resp[1]
        ELSE Failure("exception")]

BatchSubmit(texts) ==
    /\ batch.pc = "idle"
    /\ \E f \in Reqs :
          /\ FreeSlot(f)
          /\ f + Len(texts) - 1 <= MaxReqs
          /\ LET pc == batch_intake(texts)
                 items == IF pc = "running"
                          THEN [i \in 1..Len(texts) |-> f + i - 1] ELSE <<>>
             IN /\ batch' = [pc |-> pc, texts |-> texts, items |-> items, resp |-> <<>>]
                /\ req' = [r \in Reqs |->
                             IF \E i \in 1..Len(items) : items[i] = r
                             THEN [IdleReq EXCEPT !.pc = "queued",
                                                  !.text = texts[r - f + 1],
                                                  !.patient_id = Some("BATCH")]
                             ELSE req[r]]
    /\ UNCHANGED <<store, next_id, now, admin, san_in, san_out, q_in, q_out, upd, system_status_cache, hc>>

\* asyncio.gather returns once every task has returned
BatchFinish ==
    /\ batch.pc = "running"
    /\ \A i \in 1..Len(batch.items) : req[batch.items[i]].pc \in {"done", "raised"}
    /\ batch' = [batch EXCEPT !.pc = "done", !.resp = batch_results(req, batch.items)]
    /\ UNCHANGED <<store, next_id, now, req, admin, san_in, san_out, q_in, q_out, upd, system_status_cache, hc>>

\* --------------------------------------------- repository called directly
DirectData ==
    {[note_type |-> "brief", icd10_codes |-> <<>>, cpt_codes |-> <<>>,
      documentation_gaps |-> g, metadata |-> Metadata(<<"a">>)] :
        g \in {<<>>, <<DocumentationGap(GapEntry)>>}}

NoteData == [note_text : Texts, patient_id : PatientIds]

\* repo.create_note(note_data)
RepoCreate(data, db_ok) ==
    /\ next_id <= MaxRepoNotes
    /\ LET c == create_note(store, next_id, data, now, db_ok)
       IN store' = c.store /\ next_id' = c.next_id
    /\ UNCHANGED <<now, req, batch, admin, san_in, san_out, q_in, q_out, upd, system_status_cache, hc>>

\* repo.update_extraction(note_id, extraction_data)
RepoUpdate(id, data, db_ok) ==
    /\ id \in DOMAIN store => store[id].extraction_attempts < MaxAttempts
    /\ store' = update_extraction(store, id, data, now, db_ok).store
    /\ UNCHANGED <<next_id, now, req, batch, admin, san_in, san_out, q_in, q_out, upd, system_status_cache, hc>>

\* ------------------------------------------------- maintenance (admin.py)
\* a cleanup that deletes every old note whatever its status
cleanup_matches_any(st, cutoff) == {i \in DOMAIN st : st[i].created_at < cutoff}

\* delete_many of cleanup_old_records: the notes it deletes
cleanup_matches(st, cutoff) ==
    {i \in DOMAIN st : st[i].created_at < cutoff /\ st[i].status \in {"failed", "pending"}}

cleanup_old_records(st, days, t) ==
    [i \in DOMAIN st \ cleanup_matches(st, t - days) |-> st[i]]

Cleanup(days) ==
    /\ store' = cleanup_old_records(store, days, now)
    /\ UNCHANGED <<next_id, now, req, batch, admin, san_in, san_out, q_in, q_out, upd, system_status_cache, hc>>

\* find({"status": "failed"}).limit(max_items): the sets of ids it can return
reprocess_find(st, max_items) ==
    LET failed == {i \in DOMAIN st : st[i].status = "failed"}
    IN {ids \in SUBSET failed :
          Cardinality(ids) = IF Cardinality(failed) < max_items
                             THEN Cardinality(failed) ELSE max_items}

\* update_many({"_id": {"$in": note_ids}}, {"$set": {status: pending, updated_at}})
reprocess_update(st, ids, t) ==
    [i \in DOMAIN st |->
        IF i \in ids THEN [st[i] EXCEPT !.status = "pending", !.updated_at = t]
        ELSE st[i]]

MaxItemsArgs == {1, 2}

ReprocessFind(max_items) ==
    /\ admin.pc = "idle"
    /\ \E ids \in reprocess_find(store, max_items) :
          admin' = IF ids = {} THEN [pc |-> "idle", ids |-> {}]
                   ELSE [pc |-> "found", ids |-> ids]
    /\ UNCHANGED <<store, next_id, now, req, batch, san_in, san_out, q_in, q_out, upd, system_status_cache, hc>>

ReprocessUpdate ==
    /\ admin.pc = "found"
    /\ store' = reprocess_update(store, admin.ids, now)
    /\ admin' = [pc |-> "idle", ids |-> {}]
    /\ UNCHANGED <<next_id, now, req, batch, san_in, san_out, q_in, q_out, upd, system_status_cache, hc>>

\* time passes
Tick ==
    /\ \E t \in TimePoints : t > now /\ now' = t
    /\ UNCHANGED <<store, next_id, req, batch, admin, san_in, san_out, q_in, q_out, upd, system_status_cache, hc>>

Next ==
    \/ \E r \in Reqs, text \in EndpointTexts, pid \in PatientIds : Submit(r, text, pid)
    \/ \E r \in Reqs, db_ok \in BOOLEAN : Start(r, db_ok)
    \/ \E r \in Reqs : GoSilent(r)
    \/ \E r \in Reqs, outcome \in ServiceOutcomes, db_ok \in BOOLEAN :
          Finish(r, outcome, db_ok)
    \/ \E texts \in BatchTexts : BatchSubmit(texts)
    \/ BatchFinish

Spec == Init /\ [][Next]_vars

\* ------------------- the repository and the maintenance operations alone
RepoInit ==
    /\ InitSystem(LegacyStores)
    /\ san_in = Payload("scalar", <<>>, <<>>, <<>>)
    /\ san_out = None

RepoNext ==
    \/ \E data \in NoteData, db_ok \in BOOLEAN : RepoCreate(data, db_ok)
    \/ \E id \in (1..MaxRepoNotes) \cup {BadId}, data \in DirectData, db_ok \in BOOLEAN :
          RepoUpdate(id, data, db_ok)
    \/ \E days \in DaysArgs : Cleanup(days)
    \/ \E m \in MaxItemsArgs : ReprocessFind(m)
    \/ ReprocessUpdate
    \/ Tick

RepoSpec == RepoInit /\ [][RepoNext]_vars

\* --------------------------- OpenAIService.extract_codes on every payload
ParsePayloads ==
    {Payload(t, <<>>, <<>>, <<>>) : t \in Tops} \cup
    {Payload("document", icd, cpt, gaps) :
        icd \in SeqsUpTo(RawEntries, MaxCodes),
        cpt \in {<<>>, <<GoodEntry>>, <<EmptyEntry>>},
        gaps \in {<<>>, <<GapEntry>>}}

ParseInit ==
    /\ InitSystem({<<>>})
    /\ san_in \in ParsePayloads
    /\ san_out = None

Parse ==
    /\ san_out = None
    /\ san_out' = Some(extract_codes(san_in))
    /\ UNCHANGED <<san_in, store, next_id, now, req, batch, admin, q_in, q_out, upd, system_status_cache, hc>>

\* the output of extract_codes written out as a payload again (.dict())
EntryAsPayload(c) ==
    [code |-> c.code, description |-> c.description, confidence |-> Num(c.confidence),
     primary |-> IF "primary" \in DOMAIN c
                 THEN (IF c.primary THEN "true" ELSE "false")
                 ELSE Absent]

AsPayload(result) ==
    Payload("document",
            [i \in 1..Len(result.icd10_codes) |-> EntryAsPayload(result.icd10_codes[i])],
            [i \in 1..Len(result.cpt_codes) |-> EntryAsPayload(result.cpt_codes[i])],
            <<>>)

\* extract_codes applied to its own output
Reparse ==
    /\ san_out # None
    /\ san_out[1].ok
    /\ san_in' = AsPayload(san_out[1].value[1])
    /\ san_out' = Some(extract_codes(san_in'))
    /\ UNCHANGED <<store, next_id, now, req, batch, admin, q_in, q_out, upd, system_status_cache, hc>>

ParseNext == Parse \/ Reparse

ParseSpec == ParseInit /\ [][ParseNext]_vars

\* ----------------------------------- the read-only requests on the notes
\* characters of a search string: letters, the blank, and a character that
\* is neither alphanumeric nor whitespace
AlnumChars == {"a", "b"}
SpaceChars == {" "}

\* NoteType values that occur in the modelled notes
NoteTypes == {"brief", "progress"}

\* what a listing request can carry as filters; patient_id is a key that
\* NotesFilterParams does not declare
SearchTexts == {None, Some(<<>>), Some(<<"a">>), Some(<<"a", ";">>), Some(<<";">>)}
QueryDates == {None, Some(4)}

RawFilters ==
    [note_type : {None, Some("brief"), Some("progress")},
     status : {None, Some("pending"), Some("completed")},
     start_date : QueryDates,
     end_date : QueryDates,
     search_text : SearchTexts,
     has_documentation_gaps : {None, Some(FALSE), Some(TRUE)},
     patient_id : {None, Some("P1")}]

\* NotesFilterParams(**body): the declared fields; other keys are ignored
NotesFilterParams(f) ==
    [note_type |-> f.note_type, status |-> f.status,
     start_date |-> f.start_date, end_date |-> f.end_date,
     search_text |-> f.search_text,
     has_documentation_gaps |-> f.has_documentation_gaps]

\* a query document: a constraint per key, None where the key is absent
EmptyQuery ==
    [note_type |-> None, status |-> None, text |-> None,
     gte |-> None, lte |-> None, gaps |-> None]

\* ''.join(char for char in text if char.isalnum() or char.isspace())
CleanText(t) == SelectSeq(t, LAMBDA c : c \in AlnumChars \cup SpaceChars)

\* a builder that takes a missing status for the default "completed"
build_filter_query_default(filters) ==
    IF filters = None
    THEN [EmptyQuery EXCEPT !.status = Some("completed")]
    ELSE LET f == filters[1]
             clean == IF f.search_text = None THEN <<>> ELSE CleanText(f.search_text[1])
         IN [note_type |-> f.note_type,
             status |-> IF f.status = None THEN Some("completed") ELSE f.status,
             text |-> IF f.search_text # None /\ f.search_text[1] # <<>> /\ clean # <<>>
                      THEN Some(clean) ELSE None,
             gte |-> f.start_date,
             lte |-> f.end_date,
             gaps |-> IF f.has_documentation_gaps = Some(TRUE) THEN Some(TRUE) ELSE None]

\* _build_filter_query: filters is None (no filter object) or Some(params)
build_filter_query(filters) ==
    IF filters = None THEN EmptyQuery
    ELSE LET f == filters[1]
             clean == IF f.search_text = None THEN <<>> ELSE CleanText(f.search_text[1])
         IN [note_type |-> f.note_type,
             status |-> f.status,
             text |-> IF f.search_text # None /\ f.search_text[1] # <<>> /\ clean # <<>>
                      THEN Some(clean) ELSE None,
             gte |-> f.start_date,
             lte |-> f.end_date,
             gaps |-> IF f.has_documentation_gaps = Some(TRUE) THEN Some(TRUE) ELSE None]

\* $text search: a note is found when one of the terms of the search string
\* is a word of its text (every character of a modelled text is a word)
TextSearch(text, search) ==
    \E i \in 1..Len(search) : search[i] \in AlnumChars /\ search[i] \in Range(text)

\* whether a stored note satisfies a query document
Matches(n, q) ==
    /\ q.note_type # None =>
          (n.extraction # None /\ n.extraction[1].note_type = q.note_type[1])
    /\ q.status # None => n.status = q.status[1]
    /\ q.text # None => TextSearch(n.note_text, q.text[1])
    /\ q.gte # None => n.created_at >= q.gte[1]
    /\ q.lte # None => n.created_at <= q.lte[1]
    /\ q.gaps # None =>
          (n.extraction # None /\ n.extraction[1].documentation_gaps # <<>>)

find(st, q) == {i \in DOMAIN st : Matches(st[i], q)}

count_documents(st, q) == Cardinality(find(st, q))

\* get_notes_count, and the find of get_paginated_notes before its paging
get_notes_count(st, filters) ==
    LET q == build_filter_query(filters)
    IN [query |-> q, found |-> find(st, q), total |-> count_documents(st, q)]

\* the created_at constraint of the search endpoints
search_date_range(start_date, end_date) ==
    IF start_date # None /\ end_date # None
    THEN [gte |-> start_date, lte |-> end_date]
    ELSE [gte |-> None, lte |-> None]

\* the filter_query of search_medical_notes (search_extractions builds the
\* same one without the status, over its own collection)
search_filter(query, start_date, end_date, status) ==
    [note_type |-> None,
     status |-> status,
     text |-> IF query # None /\ query[1] # <<>> THEN query ELSE None,
     gte |-> search_date_range(start_date, end_date).gte,
     lte |-> search_date_range(start_date, end_date).lte,
     gaps |-> None]

search_medical_notes(st, query, start_date, end_date, status) ==
    LET q == search_filter(query, start_date, end_date, status)
    IN [query |-> q, found |-> find(st, q), total |-> count_documents(st, q)]

search_extractions_filter(query, start_date, end_date) ==
    search_filter(query, start_date, end_date, None)

\* ------------------------------------------------ get_dashboard_statistics
\* _safe_divide on integers: a zero denominator is replaced by 1
safe_divide(numerator, denominator) ==
    numerator \div (IF denominator # 0 THEN denominator ELSE 1)

RECURSIVE SumOf(_, _)
\* sum(f[x] for x in S)
SumOf(f, S) ==
    IF S = {} THEN 0
    ELSE LET x == CHOOSE y \in S : TRUE
         IN f[x] + SumOf(f, S \ {x})

RECURSIVE SumSeq(_)
SumSeq(q) == IF q = <<>> THEN 0 ELSE Head(q) + SumSeq(Tail(q))

\* the codes of a stored note (icd10_codes + cpt_codes of its extraction)
CodesOf(n) ==
    IF n.extraction = None THEN <<>>
    ELSE n.extraction[1].icd10_codes \o n.extraction[1].cpt_codes

\* mean confidence of a note's codes, in tenths
MeanConfidence(n) ==
    safe_divide(SumSeq([i \in 1..Len(CodesOf(n)) |-> CodesOf(n)[i].confidence]),
                Len(CodesOf(n)))

NoGaps(n) == n.extraction = None \/ n.extraction[1].documentation_gaps = <<>>

\* the per-note scores, in hundredths (the modelled codes carry no evidence:
\* any(...) over them is false, all(...) is true only without codes)
completeness_score(n) == 40 * (IF NoGaps(n) THEN 1 ELSE 0) + 3 * MeanConfidence(n)

accuracy_score(n) == 7 * MeanConfidence(n) + 30 * (IF CodesOf(n) = <<>> THEN 1 ELSE 0)

SecondsPerDay == 86400

\* the seconds between the creation and the last update of a note; the clock
\* counts days, and `seconds` holds what the gap has beyond whole days
gap_seconds(n) ==
    (n.updated_at - n.created_at) * SecondsPerDay
      + (IF "seconds" \in DOMAIN n THEN n.seconds ELSE 0)

\* a tier function with only the first and the last tier
timeliness_tier_coarse(seconds) == IF seconds < 5 THEN 100 ELSE 40

timeliness_tier(seconds) ==
    IF seconds < 5 THEN 100
    ELSE IF seconds < 10 THEN 80
    ELSE IF seconds < 30 THEN 60
    ELSE 40

timeliness_score(n) ==
    timeliness_tier(gap_seconds(n))
      - (IF (n.extraction_attempts - 1) * 10 > 0 THEN (n.extraction_attempts - 1) * 10 ELSE 0)

\* _calculate_documentation_*: 0 without notes, else 100 * mean of the scores
quality(st, ids, which) ==
    IF ids = {} THEN 0
    ELSE safe_divide(
           SumOf([i \in ids |->
                    IF which = "completeness" THEN completeness_score(st[i])
                    ELSE IF which = "accuracy" THEN accuracy_score(st[i])
                    ELSE timeliness_score(st[i])], ids),
           Cardinality(ids))

InPercent(x) == x >= 0 /\ x <= 100

\* the fields DashboardStatistics declares as required
DashboardRequired ==
    {"total_notes", "total_processed", "processing_success_rate",
     "avg_processing_time_ms", "status_breakdown", "type_breakdown",
     "common_icd10_codes", "common_cpt_codes", "daily_extraction_counts",
     "documentation_quality"}

\* DashboardStatistics(**fields) and its nested DocumentationQuality / TypeBreakdown
DashboardStatisticsValid(fields) ==
    /\ DashboardRequired \subseteq DOMAIN fields
    /\ InPercent(fields.processing_success_rate)
    /\ \A t \in DOMAIN fields.type_breakdown : InPercent(fields.type_breakdown[t])
    /\ \A k \in DOMAIN fields.documentation_quality :
          InPercent(fields.documentation_quality[k])

\* the keyword arguments get_dashboard_statistics passes to DashboardStatistics
dashboard_fields(st) ==
    LET counted == Cardinality(DOMAIN st)
        total_notes == IF counted > 1 THEN counted ELSE 1
        completed == {i \in DOMAIN st : st[i].status = "completed"}
    IN [total_notes |-> total_notes,
        total_processed |-> Cardinality(completed),
        processing_success_rate |-> safe_divide(Cardinality(completed) * 100, total_notes),
        avg_processing_time_ms |-> 0,
        status_breakdown |->
            [x \in ExtractionStatus |->
                safe_divide(Cardinality({i \in DOMAIN st : st[i].status = x}) * 100,
                            total_notes)],
        type_breakdown |->
            [t \in NoteTypes |->
                safe_divide(
                    Cardinality({i \in DOMAIN st :
                                    st[i].extraction # None
                                    /\ st[i].extraction[1].note_type = t}) * 100,
                    total_notes)],
        documentation_quality |->
            [k \in {"completeness", "accuracy", "timeliness"} |-> quality(st, completed, k)]]

get_dashboard_statistics(st) ==
    [raised |-> ~DashboardStatisticsValid(dashboard_fields(st)),
     fields |-> dashboard_fields(st)]

\* ----------------------- the read-only requests on collections of notes
MaxQueryNotes == 2

QueryNote(text, pid, created, updated, status, attempts, extraction) ==
    [note_text |-> text, patient_id |-> pid,
     created_at |-> created, updated_at |-> updated, status |-> status,
     extraction_attempts |-> attempts, extraction |-> extraction,
     has_documentation_gaps |->
         IF extraction # None /\ extraction[1].documentation_gaps # <<>>
         THEN Some(TRUE) ELSE None]

\* a note whose last update came s seconds after the time of day of its creation
Slow(n, s) == [f \in DOMAIN n \cup {"seconds"} |-> IF f = "seconds" THEN s ELSE n[f]]

BriefWithGap ==
    ExtractionData([note_type |-> "brief", icd10_codes |-> <<GoodEntry>>,
                    cpt_codes |-> <<>>, documentation_gaps |-> <<GapEntry>>], <<"a">>)

ProgressNoGap ==
    ExtractionData([note_type |-> "progress", icd10_codes |-> <<>>,
                    cpt_codes |-> <<>>, documentation_gaps |-> <<>>], <<"b">>)

\* notes of both patients, of several statuses, ages and numbers of attempts
QueryNotes ==
    {QueryNote(<<"a">>, Some("P1"), 0, 0, "pending", 0, None),
     QueryNote(<<"a">>, Some("P1"), 8, 8, "completed", 1, Some(BriefWithGap)),
     QueryNote(<<"b">>, Some("P2"), 4, 4, "completed", 1, Some(ProgressNoGap)),
     QueryNote(<<"b">>, Some("P2"), 0, 8, "completed", 6, Some(ProgressNoGap)),
     QueryNote(<<"b">>, Some("P1"), 4, 4, "failed", 1, None),
     Slow(QueryNote(<<"a">>, Some("P2"), 4, 4, "completed", 2, Some(ProgressNoGap)), 7),
     Slow(QueryNote(<<"a">>, Some("P2"), 8, 8, "completed", 1, Some(ProgressNoGap)), 20)}

QueryStores == SeqsUpTo(QueryNotes, MaxQueryNotes)

Queries ==
    {[op |-> "count", filters |-> None]}
    \cup {[op |-> "count", filters |-> Some(f)] : f \in RawFilters}
    \cup {[op |-> "search", query |-> t, start_date |-> a, end_date |-> b, status |-> x] :
            t \in SearchTexts, a \in QueryDates, b \in QueryDates,
            x \in {None, Some("completed")}}
    \cup {[op |-> "dashboard"]}

QueryInit ==
    /\ store \in QueryStores
    /\ next_id = Len(store) + 1
    /\ now = 8
    /\ req = [r \in Reqs |-> IdleReq]
    /\ batch = [pc |-> "idle", texts |-> <<>>, items |-> <<>>, resp |-> <<>>]
    /\ admin = [pc |-> "idle", ids |-> {}]
    /\ san_in = Payload("scalar", <<>>, <<>>, <<>>)
    /\ san_out = None
    /\ q_in \in Queries
    /\ q_out = None
    /\ upd = [c \in Callers |-> IdleCall]
    /\ system_status_cache = EmptyCache
    /\ hc = [c \in Callers |-> IdleHealth]

\* repo.get_notes_count(filters) / the find of repo.get_paginated_notes
NotesCount ==
    /\ q_in.op = "count"
    /\ q_out = None
    /\ q_out' = Some(get_notes_count(store,
                       IF q_in.filters = None THEN None
                       ELSE Some(NotesFilterParams(q_in.filters[1]))))
    /\ UNCHANGED <<store, next_id, now, req, batch, admin, san_in, san_out, q_in, upd, system_status_cache, hc>>

\* GET /api/v1/search/notes
SearchNotes ==
    /\ q_in.op = "search"
    /\ q_out = None
    /\ q_out' = Some(search_medical_notes(store, q_in.query, q_in.start_date,
                                          q_in.end_date, q_in.status))
    /\ UNCHANGED <<store, next_id, now, req, batch, admin, san_in, san_out, q_in, upd, system_status_cache, hc>>

\* repo.get_dashboard_statistics()
Dashboard ==
    /\ q_in.op = "dashboard"
    /\ q_out = None
    /\ q_out' = Some(get_dashboard_statistics(store))
    /\ UNCHANGED <<store, next_id, now, req, batch, admin, san_in, san_out, q_in, upd, system_status_cache, hc>>

QueryNext == NotesCount \/ SearchNotes \/ Dashboard

QuerySpec == QueryInit /\ [][QueryNext]_vars

\* ------------------------------------------- reading notes back, listings
\* A stored document can carry, besides the fields create_note and
\* update_extraction write, the fields `text` and `last_extraction_attempt`
\* of the MedicalNote model, and it can hold a date or a number in
\* extended-JSON form: `ejson` names the fields stored wrapped ({"$date":
\* {"$numberLong": "<ms>"}}, {"$numberInt": "<n>"}; a wrapped date holds
\* milliseconds) and `broken` the wrapped fields whose wrapper lacks the
\* expected member.  `source` and `length` are on every document and are
\* not represented.
Ejson(doc) == IF "ejson" \in DOMAIN doc THEN doc.ejson ELSE {}

Broken(doc) == IF "broken" \in DOMAIN doc THEN doc.broken ELSE {}

\* _process_date_field(note.get(f)): the datetime, None, or an exception
process_date_field(doc, f) ==
    IF f \notin DOMAIN doc THEN [raised |-> FALSE, v |-> None]
    ELSE IF f \notin Ejson(doc) THEN [raised |-> FALSE, v |-> Some(doc[f])]
    ELSE IF f \in Broken(doc) THEN [raised |-> TRUE, v |-> None]
    ELSE [raised |-> FALSE, v |-> Some(doc[f] \div 1000)]

\* the unwrapping of a number field; ok says the value is then an int
process_number_field(doc, f, unwrap) ==
    IF f \notin DOMAIN doc THEN [raised |-> FALSE, ok |-> FALSE, v |-> 0]
    ELSE IF f \notin Ejson(doc) THEN [raised |-> FALSE, ok |-> TRUE, v |-> doc[f]]
    ELSE IF ~unwrap THEN [raised |-> FALSE, ok |-> FALSE, v |-> 0]
    ELSE IF f \in Broken(doc) THEN [raised |-> TRUE, ok |-> FALSE, v |-> 0]
    ELSE [raised |-> FALSE, ok |-> TRUE, v |-> doc[f]]

DateFields == {"created_at", "updated_at", "last_extraction_attempt"}

\* the required fields of MedicalNote, on a document after its unwrapping
MedicalNoteValid(doc, unwrap) ==
    /\ "text" \in DOMAIN doc
    /\ "status" \in DOMAIN doc
    /\ \A f \in DateFields : process_date_field(doc, f).v # None
    /\ process_number_field(doc, "extraction_attempts", unwrap).ok
    /\ "extraction" \in DOMAIN doc /\ doc.extraction # None

\* the per-document body of get_note, get_recent_notes and
\* get_paginated_notes: unwrap, then MedicalNote(**note); unwrap says whether
\* the number fields are unwrapped (the listings do, get_note does not)
to_medical_note(doc, id, unwrap) ==
    IF \/ \E f \in DateFields : process_date_field(doc, f).raised
       \/ process_number_field(doc, "extraction_attempts", unwrap).raised
       \/ ~MedicalNoteValid(doc, unwrap)
    THEN [raised |-> TRUE, note |-> None]
    ELSE [raised |-> FALSE,
          note |-> Some([id |-> id, text |-> doc.text, status |-> doc.status,
                         created_at |-> process_date_field(doc, "created_at").v[1],
                         updated_at |-> process_date_field(doc, "updated_at").v[1],
                         extraction_attempts |->
                             process_number_field(doc, "extraction_attempts", unwrap).v,
                         extraction |-> doc.extraction[1]])]

\* a get_note that raises for an id that is not in the store
get_note_or_raise(st, note_id, db_ok) ==
    IF note_id = BadId THEN [raised |-> FALSE, ret |-> None]
    ELSE IF ~db_ok \/ note_id \notin DOMAIN st THEN [raised |-> TRUE, ret |-> None]
    ELSE LET m == to_medical_note(st[note_id], note_id, FALSE)
         IN IF m.raised THEN [raised |-> TRUE, ret |-> None]
            ELSE [raised |-> FALSE, ret |-> m.note]

\* get_note(note_id): ret is None for a malformed or unknown id
get_note(st, note_id, db_ok) ==
    IF note_id = BadId THEN [raised |-> FALSE, ret |-> None]
    ELSE IF ~db_ok THEN [raised |-> TRUE, ret |-> None]
    ELSE IF note_id \notin DOMAIN st THEN [raised |-> FALSE, ret |-> None]
    ELSE LET m == to_medical_note(st[note_id], note_id, FALSE)
         IN IF m.raised THEN [raised |-> TRUE, ret |-> None]
            ELSE [raised |-> FALSE, ret |-> m.note]

\* the order of two documents under sort("created_at"): a wrapped value is an
\* embedded document, which sorts before every date; equal keys keep the
\* collection's order
SortBefore(st, i, j) ==
    LET ki == <<IF "created_at" \in Ejson(st[i]) THEN 0 ELSE 1, st[i].created_at>>
        kj == <<IF "created_at" \in Ejson(st[j]) THEN 0 ELSE 1, st[j].created_at>>
    IN \/ ki[1] < kj[1]
       \/ ki[1] = kj[1] /\ ki[2] < kj[2]

RECURSIVE sorted(_, _, _)
\* find(...).sort("created_at", direction) over the documents ids
sorted(st, ids, desc) ==
    IF ids = {} THEN <<>>
    ELSE LET first == CHOOSE i \in ids :
                 \A j \in ids \ {i} :
                     IF desc
                     THEN SortBefore(st, j, i) \/ (~SortBefore(st, i, j) /\ i < j)
                     ELSE SortBefore(st, i, j) \/ (~SortBefore(st, j, i) /\ i < j)
         IN <<first>> \o sorted(st, ids \ {first}, desc)

\* a skip that starts the first page one page late
page_skip_late(page, page_size) == page * page_size

\* skip = (page - 1) * page_size
page_skip(page, page_size) == (page - 1) * page_size

\* cursor.skip(skip).limit(limit) on a sorted result
skip_limit(ids, skip, limit) ==
    SubSeq(ids, skip + 1, IF Len(ids) < skip + limit THEN Len(ids) ELSE skip + limit)

RECURSIVE first_only(_, _, _)
\* a conversion loop that stops at the first document it cannot convert
first_only(st, ids, unwrap) ==
    IF ids = <<>> THEN <<>>
    ELSE LET m == to_medical_note(st[Head(ids)], Head(ids), unwrap)
         IN IF m.raised THEN <<>>
            ELSE <<m.note[1]>> \o first_only(st, Tail(ids), unwrap)

RECURSIVE convert_each(_, _, _)
\* the `async for note in cursor` loop of the listings: a document whose
\* conversion raises is logged and skipped
convert_each(st, ids, unwrap) ==
    IF ids = <<>> THEN <<>>
    ELSE LET m == to_medical_note(st[Head(ids)], Head(ids), unwrap)
         IN (IF m.raised THEN <<>> ELSE <<m.note[1]>>)
            \o convert_each(st, Tail(ids), unwrap)

\* get_paginated_notes(page, page_size, "created_at", sort_order, filters);
\* cursor is the page of document ids the store returned
get_paginated_notes(st, page, page_size, desc, filters, db_ok) ==
    IF ~db_ok THEN [raised |-> TRUE, cursor |-> <<>>, notes |-> <<>>]
    ELSE LET query == build_filter_query(filters)
             cursor == skip_limit(sorted(st, find(st, query), desc),
                                  page_skip(page, page_size), page_size)
         IN [raised |-> FALSE, cursor |-> cursor,
             notes |-> convert_each(st, cursor, TRUE)]

\* get_recent_notes(limit)
get_recent_notes(st, limit, db_ok) ==
    IF ~db_ok THEN [raised |-> TRUE, cursor |-> <<>>, notes |-> <<>>]
    ELSE LET cursor == skip_limit(sorted(st, DOMAIN st, TRUE), 0, limit)
         IN [raised |-> FALSE, cursor |-> cursor,
             notes |-> convert_each(st, cursor, TRUE)]

\* math.ceil(total_notes / page_size)
ceil_div(total, page_size) ==
    IF total % page_size = 0 THEN total \div page_size ELSE total \div page_size + 1

NotesSummary(total_notes, total_pages, page, page_size, has_next, has_previous) ==
    [total_notes |-> total_notes, total_pages |-> total_pages,
     current_page |-> page, notes_per_page |-> page_size,
     has_next |-> has_next, has_previous |-> has_previous]

\* the filters object list_notes builds from its query parameters
ListFilters(status) ==
    [note_type |-> None, status |-> status, start_date |-> None, end_date |-> None,
     search_text |-> None, has_documentation_gaps |-> None]

\* GET /api/v1/notes; cursor is kept beside the response for the properties
list_notes(st, page, page_size, desc, status, db_ok) ==
    LET filters == ListFilters(status)
        total_notes == get_notes_count(st, Some(filters)).total
        total_pages == ceil_div(total_notes, page_size)
        got == get_paginated_notes(st, page, page_size, desc, Some(filters), db_ok)
    IN IF ~db_ok \/ got.raised
       THEN [success |-> FALSE, cursor |-> <<>>, notes |-> <<>>,
             summary |-> NotesSummary(0, 0, page, page_size, FALSE, FALSE)]
       ELSE [success |-> TRUE, cursor |-> got.cursor, notes |-> got.notes,
             summary |-> NotesSummary(total_notes, total_pages, page, page_size,
                                      page < total_pages, page > 1)]

\* ---- the listing and read-back requests over bounded collections
MaxListNotes == 3
PageSizes == {1, 2}

\* a note as the extract endpoint's create_note leaves it
PipelineNew ==
    create_note(<<>>, 1, [note_text |-> <<"a">>, patient_id |-> Some("P1")], 0, TRUE).store[1]

\* the same note after the endpoint's update_extraction
PipelineDone == UpdatedNote(PipelineNew, BriefWithGap, 4)

\* a document with the fields of the MedicalNote model
TypedNote(text, t, ejson, broken) ==
    [text |-> text, patient_id |-> Some("P2"),
     created_at |-> IF "created_at" \in ejson THEN t * 1000 ELSE t,
     updated_at |-> t, last_extraction_attempt |-> t,
     status |-> "completed", extraction_attempts |-> 1,
     extraction |-> Some(ProgressNoGap), has_documentation_gaps |-> None,
     ejson |-> ejson, broken |-> broken]

ListDocs ==
    {PipelineNew, PipelineDone,
     TypedNote(<<"a">>, 8, {}, {}),
     TypedNote(<<"b">>, 4, {}, {}),
     TypedNote(<<"b">>, 2, {"created_at", "extraction_attempts"}, {}),
     TypedNote(<<"a">>, 2, {"created_at"}, {"created_at"}),
     TypedNote(<<"a">>, 8, {"extraction_attempts"}, {"extraction_attempts"})}

ListStores == SeqsUpTo(ListDocs, MaxListNotes)

ListQueries ==
    {[op |-> "list", page |-> p, page_size |-> z, desc |-> d, status |-> x] :
         p \in 1..(MaxListNotes + 1), z \in PageSizes, d \in BOOLEAN,
         x \in {None, Some("completed")}}
    \cup {[op |-> "recent", limit |-> z] : z \in PageSizes}
    \cup {[op |-> "get", note_id |-> i] : i \in {BadId} \cup (1..(MaxListNotes + 1))}

ListInit ==
    /\ store \in ListStores
    /\ next_id = Len(store) + 1
    /\ now = 8
    /\ req = [r \in Reqs |-> IdleReq]
    /\ batch = [pc |-> "idle", texts |-> <<>>, items |-> <<>>, resp |-> <<>>]
    /\ admin = [pc |-> "idle", ids |-> {}]
    /\ san_in = Payload("scalar", <<>>, <<>>, <<>>)
    /\ san_out = None
    /\ q_in \in ListQueries
    /\ q_out = None
    /\ upd = [c \in Callers |-> IdleCall]
    /\ system_status_cache = EmptyCache
    /\ hc = [c \in Callers |-> IdleHealth]

\* GET /api/v1/notes
ListNotes(db_ok) ==
    /\ q_in.op = "list"
    /\ q_out = None
    /\ q_out' = Some([db_ok |-> db_ok]
                      @@ list_notes(store, q_in.page, q_in.page_size, q_in.desc,
                                    q_in.status, db_ok))
    /\ UNCHANGED <<store, next_id, now, req, batch, admin, san_in, san_out, q_in, upd,
                   system_status_cache, hc>>

\* repo.get_recent_notes(limit)
RecentNotes(db_ok) ==
    /\ q_in.op = "recent"
    /\ q_out = None
    /\ q_out' = Some([db_ok |-> db_ok] @@ get_recent_notes(store, q_in.limit, db_ok))
    /\ UNCHANGED <<store, next_id, now, req, batch, admin, san_in, san_out, q_in, upd,
                   system_status_cache, hc>>

\* repo.get_note(note_id)
GetNote(db_ok) ==
    /\ q_in.op = "get"
    /\ q_out = None
    /\ q_out' = Some([db_ok |-> db_ok] @@ get_note(store, q_in.note_id, db_ok))
    /\ UNCHANGED <<store, next_id, now, req, batch, admin, san_in, san_out, q_in, upd,
                   system_status_cache, hc>>

ListNext ==
    \/ \E db_ok \in BOOLEAN : ListNotes(db_ok)
    \/ \E db_ok \in BOOLEAN : RecentNotes(db_ok)
    \/ \E db_ok \in BOOLEAN : GetNote(db_ok)

ListSpec == ListInit /\ [][ListNext]_vars

\* ------------------ two update_extraction calls running at the same time
\* repo.update_extraction(note_id, data) is called and reaches its await
UpdateCall(c, id, data) ==
    /\ upd[c].pc = "idle"
    /\ upd' = [upd EXCEPT ![c] = [IdleCall EXCEPT !.pc = "called", !.note_id = id,
                                                  !.data = Some(data)]]
    /\ UNCHANGED <<store, next_id, now, req, batch, admin, san_in, san_out, q_in, q_out, system_status_cache, hc>>

\* the number of update_one operations the store has applied for the callers
Applied == Cardinality({c \in Callers : upd[c].seq > 0})

\* the store applies the call's update_one (one atomic operation on the
\* document) and the call returns
UpdateApply(c, db_ok) ==
    /\ upd[c].pc = "called"
    /\ LET u == update_extraction(store, upd[c].note_id, upd[c].data[1], now, db_ok)
       IN /\ store' = u.store
          /\ upd' = [upd EXCEPT ![c].pc = IF u.raised THEN "raised" ELSE "done",
                                ![c].ret = u.ret,
                                ![c].seq = Applied + 1]
    /\ UNCHANGED <<next_id, now, req, batch, admin, san_in, san_out, q_in, q_out, system_status_cache, hc>>

\* repo.get_note(note_id), called while the updates are in flight
RaceGet(id, db_ok) ==
    /\ q_in' = [op |-> "get", note_id |-> id]
    /\ q_out' = Some([db_ok |-> db_ok] @@ get_note(store, id, db_ok))
    /\ UNCHANGED <<store, next_id, now, req, batch, admin, san_in, san_out, upd,
                   system_status_cache, hc>>

\* one note, as create_note leaves it
RaceInit ==
    /\ store = create_note(<<>>, 1, [note_text |-> <<"a">>, patient_id |-> Some("P1")],
                           0, TRUE).store
    /\ next_id = 2
    /\ now = 0
    /\ req = [r \in Reqs |-> IdleReq]
    /\ batch = [pc |-> "idle", texts |-> <<>>, items |-> <<>>, resp |-> <<>>]
    /\ admin = [pc |-> "idle", ids |-> {}]
    /\ san_in = Payload("scalar", <<>>, <<>>, <<>>)
    /\ san_out = None
    /\ q_in = NoQuery
    /\ q_out = None
    /\ upd = [c \in Callers |-> IdleCall]
    /\ system_status_cache = EmptyCache
    /\ hc = [c \in Callers |-> IdleHealth]

RaceNext ==
    \/ \E c \in Callers, id \in {1, 2, BadId}, data \in DirectData : UpdateCall(c, id, data)
    \/ \E c \in Callers, db_ok \in BOOLEAN : UpdateApply(c, db_ok)
    \/ \E id \in {1, 2, BadId}, db_ok \in BOOLEAN : RaceGet(id, db_ok)

RaceSpec == RaceInit /\ [][RaceNext]_vars

\* ------------------------------------------------- the health-check cache
\* in this specification the clock counts minutes
MaxMinutes == 6
CacheMinutes == 5

ServiceStates == {"healthy", "unhealthy"}

\* the cache test at the head of check_system_health, passing whatever the age
cache_fresh_forever(cache, current_time) == cache.last_check # None

\* the cache test at the head of check_system_health
cache_fresh(cache, current_time) ==
    /\ cache.last_check # None
    /\ current_time - cache.last_check[1] < CacheMinutes

\* the status dict check_system_health builds from its two probes
health_status(current_time, mongodb, openai) ==
    [status |-> "online", timestamp |-> current_time,
     mongodb |-> mongodb, openai |-> openai]

\* check_system_health is entered: it reads the clock and tests the cache; a
\* fresh cache is returned at once, otherwise the call goes on to its probes
HealthBegin(c) ==
    /\ hc[c].pc = "idle"
    /\ hc' = [hc EXCEPT ![c] =
                IF cache_fresh(system_status_cache, now)
                THEN [pc |-> "done", current_time |-> now,
                      result |-> system_status_cache.status, probed |-> FALSE]
                ELSE [pc |-> "probing", current_time |-> now,
                      result |-> None, probed |-> FALSE]]
    /\ UNCHANGED <<store, next_id, now, req, batch, admin, san_in, san_out, q_in, q_out,
                   upd, system_status_cache>>

\* the probes of the store and of the text-generation service have answered
\* (a failing probe is recorded as unhealthy); the cache is replaced
HealthProbe(c, mongodb, openai) ==
    /\ hc[c].pc = "probing"
    /\ LET status == health_status(hc[c].current_time, mongodb, openai)
       IN /\ system_status_cache' =
                 [last_check |-> Some(hc[c].current_time), status |-> Some(status)]
          /\ hc' = [hc EXCEPT ![c].pc = "done", ![c].result = Some(status),
                              ![c].probed = TRUE]
    /\ UNCHANGED <<store, next_id, now, req, batch, admin, san_in, san_out, q_in, q_out,
                   upd>>

\* the caller has its result and may call again
HealthReturn(c) ==
    /\ hc[c].pc = "done"
    /\ hc' = [hc EXCEPT ![c] = IdleHealth]
    /\ UNCHANGED <<store, next_id, now, req, batch, admin, san_in, san_out, q_in, q_out,
                   upd, system_status_cache>>

\* a minute passes
HealthTick ==
    /\ now < MaxMinutes
    /\ now' = now + 1
    /\ UNCHANGED <<store, next_id, req, batch, admin, san_in, san_out, q_in, q_out,
                   upd, system_status_cache, hc>>

HealthInit ==
    /\ InitSystem({<<>>})
    /\ san_in = Payload("scalar", <<>>, <<>>, <<>>)
    /\ san_out = None

HealthNext ==
    \/ \E c \in Callers : HealthBegin(c)
    \/ \E c \in Callers, mongodb \in ServiceStates, openai \in ServiceStates :
          HealthProbe(c, mongodb, openai)
    \/ \E c \in Callers : HealthReturn(c)
    \/ HealthTick

HealthSpec == HealthInit /\ [][HealthNext]_vars

\* ======================================================== properties
\* ---- C1 (RepoSpec): a note is created with status pending, its status
\* changes only along pending -> in_progress, in_progress -> completed,
\* in_progress -> failed, failed -> pending, and every stored status is one
\* of pending, in_progress, completed, failed
AllowedTransitions ==
    {<<"pending", "in_progress">>, <<"in_progress", "completed">>,
     <<"in_progress", "failed">>, <<"failed", "pending">>}

C1_StatusLifecycle ==
    [][\A i \in DOMAIN store' :
            /\ store'[i].status \in ExtractionStatus
            /\ i \notin DOMAIN store => store'[i].status = "pending"
            /\ (i \in DOMAIN store /\ store'[i].status # store[i].status)
                  => <<store[i].status, store'[i].status>> \in AllowedTransitions]_vars

\* ---- C2 (Spec): once an extract request has returned, the note it created
\* is completed if the response is a success and failed if it is a failure;
\* it is never left in the status it was created with
C2_StatusAfterReturn ==
    \A r \in Reqs :
        (req[r].pc = "done" /\ req[r].note_id \in DOMAIN store)
            => store[req[r].note_id].status =
                   IF req[r].resp[1].success THEN "completed" ELSE "failed"

\* ---- C3 (Spec): a handled extract request always returns a response and
\* never lets an exception out: a success carries data with all five fields
\* and no error, a failure carries an error and no data, and a request whose
\* note creation, extraction call or store update failed is never a success
ResponseFields ==
    {"note_type", "icd10_codes", "cpt_codes", "documentation_gaps", "metadata"}

C3_AlwaysAResponse ==
    \A r \in Reqs :
        /\ req[r].pc \in {"idle", "rejected", "queued", "calling", "done"}
        /\ req[r].pc = "done" =>
              /\ req[r].resp # None
              /\ LET resp == req[r].resp[1]
                 IN /\ resp.success =>
                          /\ resp.data # None
                          /\ DOMAIN resp.data[1] = ResponseFields
                          /\ resp.error = None
                    /\ ~resp.success => (resp.data = None /\ resp.error # None)
                    /\ (req[r].got # "document" \/ req[r].db_failed) => ~resp.success

\* one request returned a success and another a failure of the extraction call
C3_Witness ==
    \E r, q \in Reqs :
        /\ req[r].pc = "done" /\ req[r].resp[1].success
        /\ req[q].pc = "done" /\ req[q].got = "error" /\ ~req[q].resp[1].success

C5_EmptyTextRejected ==
    /\ \A r \in Reqs :
          (req[r].pc # "idle" /\ req[r].text = <<>>)
              => (req[r].pc = "rejected" /\ req[r].note_id = BadId /\ req[r].got = "none")
    /\ (batch.pc # "idle" /\ \E i \in 1..Len(batch.texts) : batch.texts[i] # <<>>)
          => batch.pc \in {"running", "done"}

\* ---- C6 (Spec): an extraction call does not hang: whatever the service
\* does, a request waiting on its call has a step that ends the call and
\* returns the request
C6_CallEnds ==
    \A r \in Reqs :
        req[r].pc = "calling"
            => ENABLED (\E outcome \in ServiceOutcomes, db_ok \in BOOLEAN :
                            Finish(r, outcome, db_ok))

\* ---- C7 (ParseSpec): every code of an extraction output has a confidence
\* within [0, 1] whatever the service returned: above 1 becomes 1, below 0
\* becomes 0, missing or non-numeric becomes the default, and the entry is kept
OnlyConfidenceOff(e) ==
    /\ e.code \notin {Absent, ""}
    /\ e.description # Absent
    /\ e.primary # Absent

ClampedConfidence(c) ==
    IF c.k # "num" THEN DefaultConfidence
    ELSE IF c.v > ConfHi THEN ConfHi
    ELSE IF c.v < ConfLo THEN ConfLo
    ELSE c.v

C7_ConfidenceClamped ==
    (/\ san_out # None
     /\ san_in.top = "document"
     /\ \A e \in Range(san_in.icd10_codes) \cup Range(san_in.cpt_codes) :
           OnlyConfidenceOff(e))
        => /\ san_out[1].ok
           /\ LET out == san_out[1].value[1]
              IN /\ Len(out.icd10_codes) = Len(san_in.icd10_codes)
                 /\ \A i \in 1..Len(out.icd10_codes) :
                       out.icd10_codes[i].confidence =
                           ClampedConfidence(san_in.icd10_codes[i].confidence)
                 /\ Len(out.cpt_codes) = Len(san_in.cpt_codes)
                 /\ \A i \in 1..Len(out.cpt_codes) :
                       out.cpt_codes[i].confidence =
                           ClampedConfidence(san_in.cpt_codes[i].confidence)

\* ---- C8 (ParseSpec): no entry of an extraction output has an empty or
\* missing code: an input entry whose code is absent or empty is dropped from
\* its list and the other entries are kept in their input order
HasCode(e) == e.code \notin {Absent, ""}

OnlyCodeOff(e) ==
    /\ e.description # Absent
    /\ e.primary # Absent
    /\ e.confidence.k = "num"
    /\ e.confidence.v >= ConfLo
    /\ e.confidence.v <= ConfHi

C8_EmptyCodesDropped ==
    (/\ san_out # None
     /\ san_in.top = "document"
     /\ \A e \in Range(san_in.icd10_codes) \cup Range(san_in.cpt_codes) :
           OnlyCodeOff(e))
        => /\ san_out[1].ok
           /\ LET out == san_out[1].value[1]
              IN /\ out.icd10_codes =
                       ICD10Codes(SelectSeq(san_in.icd10_codes, HasCode))
                 /\ out.cpt_codes =
                       CPTCodes(SelectSeq(san_in.cpt_codes, HasCode))

\* ---- C9 (ParseSpec): a malformed entry never fails the extraction: a
\* payload that is a document always gives an output, and every well-formed
\* entry with a code is in it
C9_MalformedEntryTolerated ==
    (san_out # None /\ san_in.top = "document")
        => /\ san_out[1].ok
           /\ \A e \in Range(san_in.icd10_codes) :
                 (ValidICD10Code(e) /\ HasCode(e))
                     => ICD10Code(e) \in Range(san_out[1].value[1].icd10_codes)
           /\ \A e \in Range(san_in.cpt_codes) :
                 (ValidCPTCode(e) /\ HasCode(e))
                     => CPTCode(e) \in Range(san_out[1].value[1].cpt_codes)

\* ---- C10 (ParseSpec): a payload that is valid JSON but no document makes
\* the extraction signal an error, and it is the only shape of payload for
\* which it does: every document gives an output
C10_OnlyNonDocumentFatal ==
    (san_out # None /\ san_in.top # "notjson")
        => (san_out[1].ok <=> san_in.top = "document")

\* ---- C11 (ParseSpec): the parsing of a payload is idempotent: applied to
\* its own output it returns that output again
C11_Idempotent ==
    [][(san_out # None /\ san_out' # None) => san_out' = san_out]_vars

\* an output with two ICD-10 codes and a CPT code was parsed again from its
\* own payload form (which, unlike the first payload, has no extra key)
C11_Witness ==
    /\ san_out # None
    /\ san_out[1].ok
    /\ Len(san_out[1].value[1].icd10_codes) = 2
    /\ san_in = AsPayload(san_out[1].value[1])
    /\ san_in.cpt_codes # <<>>
    /\ san_in.cpt_codes[1].primary = Absent

\* ---- C12 (QuerySpec): for a filter set whose every field is absent, and
\* for an absent filter object, the query builder returns the unconstrained
\* predicate: the count is the number of stored notes and the listing's find
\* covers every stored note
NoFilterGiven(q) ==
    \/ q.filters = None
    \/ \A k \in DOMAIN q.filters[1] : q.filters[1][k] = None

C12_EmptyFilterUnconstrained ==
    (q_out # None /\ q_in.op = "count" /\ NoFilterGiven(q_in))
        => /\ q_out[1].query = EmptyQuery
           /\ q_out[1].found = DOMAIN store
           /\ q_out[1].total = Len(store)

\* a filter object with every field absent was counted over two notes of
\* different status
C12_Witness ==
    /\ q_out # None
    /\ q_in.op = "count"
    /\ q_in.filters # None
    /\ NoFilterGiven(q_in)
    /\ Len(store) = 2
    /\ store[1].status # store[2].status
    /\ q_out[1].total = 2

\* ---- C13 (QuerySpec): filters are additive: for every combination of note
\* type, status, date range, free-text search, documentation-gap presence
\* and patient id, the notes matching the built predicate are the
\* intersection of the sets each present filter matches alone
OnlyField(f, k) == [x \in DOMAIN f |-> IF x = k THEN f[x] ELSE None]

AloneSet(st, f, k) ==
    IF k = "patient_id"
    THEN {i \in DOMAIN st : f.patient_id = None \/ st[i].patient_id = f.patient_id}
    ELSE get_notes_count(st, Some(NotesFilterParams(OnlyField(f, k)))).found

C13_FiltersAdditive ==
    (q_out # None /\ q_in.op = "count" /\ q_in.filters # None)
        => q_out[1].found =
              {i \in DOMAIN store :
                  \A k \in DOMAIN q_in.filters[1] : i \in AloneSet(store, q_in.filters[1], k)}

\* ---- C14 (QuerySpec): the date range is open-ended on both sides, in the
\* notes query builder and in the search endpoint: a start date alone keeps
\* exactly the notes created at or after it, an end date alone those created
\* at or before it, both those in between
InDateRange(n, start_date, end_date) ==
    /\ start_date # None => n.created_at >= start_date[1]
    /\ end_date # None => n.created_at <= end_date[1]

OnlyDatesGiven(q) ==
    IF q.op = "count"
    THEN /\ q.filters # None
         /\ \A k \in DOMAIN q.filters[1] \ {"start_date", "end_date"} : q.filters[1][k] = None
    ELSE q.op = "search" /\ q.query = None /\ q.status = None

C14_OpenEndedDates ==
    (q_out # None /\ OnlyDatesGiven(q_in))
        => LET a == IF q_in.op = "count" THEN q_in.filters[1].start_date ELSE q_in.start_date
               b == IF q_in.op = "count" THEN q_in.filters[1].end_date ELSE q_in.end_date
           IN q_out[1].found = {i \in DOMAIN store : InDateRange(store[i], a, b)}

\* ---- C15 (QuerySpec): the search string handed to the store's text search
\* is the user's string without its characters that are neither alphanumeric
\* nor whitespace, and no text constraint is added when nothing remains, on
\* the notes listing and on the search endpoint
GivenSearch(q) ==
    IF q.op = "search" THEN q.query
    ELSE IF q.filters = None THEN None
    ELSE q.filters[1].search_text

C15_SearchSanitized ==
    (q_out # None /\ q_in.op \in {"count", "search"})
        => q_out[1].query.text =
              IF GivenSearch(q_in) = None \/ CleanText(GivenSearch(q_in)[1]) = <<>>
              THEN None
              ELSE Some(CleanText(GivenSearch(q_in)[1]))

\* ---- C16 (QuerySpec): for every collection, the empty one and notes with
\* any number of attempts included, get_dashboard_statistics returns without
\* raising, every percentage it reports is within [0, 100], and for the
\* empty collection every percentage and the reported total are 0
DashboardPercentages(d) ==
    {d.processing_success_rate}
    \cup {d.status_breakdown[x] : x \in DOMAIN d.status_breakdown}
    \cup {d.type_breakdown[t] : t \in DOMAIN d.type_breakdown}
    \cup {d.documentation_quality[k] : k \in DOMAIN d.documentation_quality}

C16_DashboardInRange ==
    (q_out # None /\ q_in.op = "dashboard")
        => /\ ~q_out[1].raised
           /\ \A x \in DashboardPercentages(q_out[1].fields) : InPercent(x)
           /\ store = <<>> =>
                 /\ DashboardPercentages(q_out[1].fields) = {0}
                 /\ q_out[1].fields.total_notes = 0

\* ---- C17 (RepoSpec): extraction_attempts is never negative; it is 0 at
\* creation, an update_extraction that modifies the note adds exactly 1, and
\* no other step (reprocess, cleanup, failed update) changes it
C17_AttemptsCount ==
    [][\A i \in DOMAIN store' :
          /\ store'[i].extraction_attempts >= 0
          /\ i \notin DOMAIN store => store'[i].extraction_attempts = 0
          /\ i \in DOMAIN store =>
                /\ store'[i].extraction_attempts \in
                      {store[i].extraction_attempts, store[i].extraction_attempts + 1}
                /\ (\/ store'[i].extraction # store[i].extraction
                    \/ (store'[i].status = "completed" /\ store[i].status # "completed"))
                      => store'[i].extraction_attempts = store[i].extraction_attempts + 1
                /\ store'[i].extraction_attempts = store[i].extraction_attempts + 1
                      => (store'[i].status = "completed" /\ store'[i].extraction # None)]_vars

\* a note was updated twice, and a failed note was sent back to pending with
\* its attempt kept
C17_Witness ==
    /\ \E i \in DOMAIN store : store[i].extraction_attempts = 2
    /\ \E j \in DOMAIN store :
          store[j].status = "pending" /\ store[j].extraction_attempts = 1

\* ---- C18 (RepoSpec): a note leaves the store only in a cleanup, which
\* deletes exactly the notes older than the cutoff whose status is failed or
\* pending; every other note stays, unchanged
C18_OnlyCleanupDeletes ==
    [][LET gone == DOMAIN store \ DOMAIN store'
       IN gone # {} =>
             /\ \E days \in DaysArgs :
                   gone = {i \in DOMAIN store :
                             /\ store[i].created_at < now - days
                             /\ store[i].status \in {"failed", "pending"}}
             /\ \A i \in DOMAIN store \ gone : store'[i] = store[i]]_vars

\* an old failed or pending note is gone while a completed note of the same
\* age is still stored
C18_Witness ==
    /\ \E i \in 1..(next_id - 1) : i \notin DOMAIN store
    /\ \E j \in DOMAIN store :
          /\ store[j].status = "completed"
          /\ \E days \in DaysArgs : store[j].created_at < now - days

\* ---- C19 (Spec): the patient identifier is optional: a request without it
\* still creates its note and reaches the extraction call
C19_PatientIdOptional ==
    \A r \in Reqs :
        (req[r].pc = "done" /\ req[r].patient_id = None /\ ~req[r].db_failed)
            => (req[r].got # "none" /\ req[r].note_id # BadId)

\* ---- C20 (RaceSpec): two update_extraction calls for the same note that
\* run at the same time both complete and report success; the note's status
\* and extraction are those of the call whose store update was applied last,
\* and extraction_attempts has grown by 2
C20_LastWriterWins ==
    \A c, d \in Callers :
        (/\ c # d
         /\ upd[c].pc = "done" /\ upd[d].pc = "done"
         /\ upd[c].note_id = 1 /\ upd[d].note_id = 1
         /\ upd[c].seq < upd[d].seq)
            => /\ upd[c].ret /\ upd[d].ret
               /\ store[1].status = "completed"
               /\ store[1].extraction = upd[d].data
               /\ store[1].extraction_attempts = 2

\* both calls returned; the one applied first wrote a documentation gap, the
\* one applied last wrote none
C20_Witness ==
    /\ upd["c1"].pc = "done" /\ upd["c2"].pc = "done"
    /\ upd["c1"].note_id = 1 /\ upd["c2"].note_id = 1
    /\ upd["c2"].seq < upd["c1"].seq
    /\ upd["c2"].data[1].documentation_gaps # <<>>
    /\ upd["c1"].data[1].documentation_gaps = <<>>
    /\ store[1].extraction = upd["c1"].data

\* ---- C21 (HealthSpec): a check_system_health call made less than 5
\* minutes after the last refresh returns the cached status, leaves the cache
\* as it is and runs no probe; a call made 5 minutes or more after it, or
\* with nothing cached, probes and replaces the cached status and the
\* refresh time
C21_HealthCacheTTL ==
    [][\A c \in Callers :
          /\ (hc[c].pc = "idle" /\ hc'[c].pc # "idle") =>
                IF /\ system_status_cache.last_check # None
                   /\ now - system_status_cache.last_check[1] < 5
                THEN /\ hc'[c].pc = "done"
                     /\ hc'[c].result = system_status_cache.status
                     /\ ~hc'[c].probed
                     /\ system_status_cache' = system_status_cache
                ELSE hc'[c].pc = "probing"
          /\ (hc[c].pc = "probing" /\ hc'[c].pc # "probing") =>
                /\ hc'[c].pc = "done"
                /\ hc'[c].probed
                /\ hc'[c].result[1].timestamp = hc[c].current_time
                /\ system_status_cache'.status = hc'[c].result
                /\ system_status_cache'.last_check = Some(hc[c].current_time)]_vars

\* one call was answered from a cache filled four minutes before, and the
\* cache has since been refreshed by a call made at minute 5 or later
C21_Witness ==
    /\ hc["c1"].pc = "done" /\ ~hc["c1"].probed
    /\ hc["c1"].current_time = 4
    /\ hc["c1"].result[1].timestamp = 0
    /\ hc["c2"].pc = "done" /\ hc["c2"].probed
    /\ system_status_cache.last_check # None
    /\ system_status_cache.last_check[1] >= 5
    /\ system_status_cache.status = hc["c2"].result

\* a stored document that the listings can turn into a typed note: it has
\* the text and the three dates of the model, an extraction, and no wrapped
\* field with a broken wrapper
WellFormed(doc) ==
    /\ {"text", "created_at", "updated_at", "last_extraction_attempt"} \subseteq DOMAIN doc
    /\ doc.extraction # None
    /\ Broken(doc) = {}

\* ---- C22 (ListSpec): in get_paginated_notes and get_recent_notes a stored
\* record that cannot be unwrapped or built into a typed note is left out and
\* does not abort the query: the notes returned are exactly the other records
\* of the page, in the store's order
C22_BadRecordSkipped ==
    (/\ q_out # None
     /\ q_in.op \in {"list", "recent"}
     /\ \/ q_in.op = "list" /\ q_out[1].success
        \/ q_in.op = "recent" /\ ~q_out[1].raised)
        => LET good == SelectSeq(q_out[1].cursor, LAMBDA i : WellFormed(store[i]))
           IN /\ Len(q_out[1].notes) = Len(good)
              /\ \A k \in 1..Len(good) :
                    /\ q_out[1].notes[k].id = good[k]
                    /\ q_out[1].notes[k].text = store[good[k]].text

\* a page of two records whose first has a broken date wrapper: the second
\* is returned alone
C22_Witness ==
    /\ q_out # None
    /\ q_in.op = "list"
    /\ q_out[1].success
    /\ Len(q_out[1].cursor) = 2
    /\ "created_at" \in Broken(store[q_out[1].cursor[1]])
    /\ Len(q_out[1].notes) = 1
    /\ q_out[1].notes[1].id = q_out[1].cursor[2]

\* the timeliness score of one note, in hundredths
TimelinessOf(n) ==
    LET gap == (n.updated_at - n.created_at) * 86400
                 + (IF "seconds" \in DOMAIN n THEN n.seconds ELSE 0)
        retries == IF n.extraction_attempts > 1 THEN n.extraction_attempts - 1 ELSE 0
    IN (CASE gap < 5 -> 100
          [] gap >= 5 /\ gap < 10 -> 80
          [] gap >= 10 /\ gap < 30 -> 60
          [] OTHER -> 40) - 10 * retries

Processed == {i \in DOMAIN store : store[i].status = "completed"}

C24_ReprocessFrame ==
    [][(admin.pc = "found" /\ admin'.pc = "idle") =>
          LET changed == {i \in DOMAIN store : i \in DOMAIN store' /\ store'[i] # store[i]}
          IN /\ DOMAIN store' = DOMAIN store
             /\ changed = admin.ids
             /\ \A i \in changed :
                   store[i].status = "failed" /\ store'[i].status = "pending"
             /\ \A i \in DOMAIN store :
                   /\ store'[i].extraction = store[i].extraction
                   /\ store'[i].extraction_attempts = store[i].extraction_attempts]_vars

\* ---- C30 (RepoSpec): a note is moved to pending only from failed: a note
\* that update_extraction completed between the reprocess operation's find
\* and its update_many stays completed
C30_ReprocessGuarded ==
    [][\A i \in DOMAIN store \cap DOMAIN store' :
          (store'[i].status = "pending" /\ store[i].status # "pending")
              => store[i].status = "failed"]_vars

\* ---- C29 (RepoSpec): after any sequence of update_extraction calls the
\* has_documentation_gaps flag of a note is true exactly when the extraction
\* stored on it has a non-empty documentation_gaps list
C29_GapFlagCurrent ==
    \A i \in DOMAIN store :
        store[i].extraction # None =>
            (store[i].has_documentation_gaps = Some(TRUE)
                <=> store[i].extraction[1].documentation_gaps # <<>>)

\* ---- C25 (RaceSpec): an operation addressed to a malformed id or to an id
\* that is not in the store changes no stored note and reports the miss as a
\* value: update_extraction returns false and get_note returns no note, and
\* neither raises unless the store itself fails
C25_MissIsAValue ==
    [][/\ \A c \in Callers :
             (/\ upd[c].pc = "called" /\ upd'[c].pc # "called"
              /\ upd[c].note_id \notin DOMAIN store)
                 => /\ store' = store
                    /\ upd'[c].pc = "done" => ~upd'[c].ret
                    /\ upd[c].note_id = BadId => upd'[c].pc = "done"
       /\ (/\ q_out' # None
           /\ q_out' # q_out
           /\ q_in'.note_id \notin DOMAIN store)
              => /\ store' = store
                 /\ q_out'[1].ret = None
                 /\ (q_out'[1].db_ok \/ q_in'.note_id = BadId) => ~q_out'[1].raised]_vars

\* an update of an unknown id returned false, an update of a malformed id
\* returned false, a get_note of an unknown id returned no note, and the one
\* stored note is as it was created
C25_Witness ==
    /\ upd["c1"].pc = "done" /\ upd["c1"].note_id = 2 /\ ~upd["c1"].ret
    /\ upd["c2"].pc = "done" /\ upd["c2"].note_id = BadId /\ ~upd["c2"].ret
    /\ q_out # None /\ q_in.note_id = 2
    /\ q_out[1].db_ok /\ ~q_out[1].raised /\ q_out[1].ret = None
    /\ store[1].extraction_attempts = 0 /\ store[1].status = CreatedStatus

\* ---- C26 (Spec): while the text-generation call of a request is pending
\* its note is already in the store, and whenever the endpoint has returned
\* success=true the store holds the request's note with status completed,
\* the response's data as its extraction, and extraction_attempts 1
C26_SuccessMeansStored ==
    \A r \in Reqs :
        /\ req[r].pc = "calling" =>
              /\ req[r].note_id \in DOMAIN store
              /\ store[req[r].note_id].note_text = req[r].text
              /\ store[req[r].note_id].extraction = None
              /\ store[req[r].note_id].extraction_attempts = 0
        /\ (req[r].pc = "done" /\ req[r].resp[1].success) =>
              /\ req[r].note_id \in DOMAIN store
              /\ store[req[r].note_id].note_text = req[r].text
              /\ store[req[r].note_id].status = "completed"
              /\ store[req[r].note_id].extraction = req[r].resp[1].data
              /\ store[req[r].note_id].extraction_attempts = 1

\* two requests returned success, each with its own note
C26_Witness ==
    /\ \A r \in Reqs : req[r].pc = "done" /\ req[r].resp[1].success
    /\ req[1].note_id # req[2].note_id
    /\ \A r \in Reqs : store[req[r].note_id].extraction = req[r].resp[1].data

\* a document as the extract endpoint's create_note and update_extraction
\* write it
PipelineWritten(doc) == "note_text" \in DOMAIN doc /\ doc.extraction # None

\* ---- C27 (ListSpec): a note written by create_note followed by
\* update_extraction can be read back: get_note returns it as a typed note
\* with the same text, and an unfiltered listing returns every such note of
\* its page
C27_ReadBack ==
    (q_out # None /\ q_out[1].db_ok) =>
        /\ (/\ q_in.op = "get"
            /\ q_in.note_id \in DOMAIN store
            /\ PipelineWritten(store[q_in.note_id]))
               => /\ ~q_out[1].raised
                  /\ q_out[1].ret # None
                  /\ q_out[1].ret[1].text = store[q_in.note_id].note_text
        /\ (q_in.op = "list" /\ q_in.status = None) =>
              /\ q_out[1].success
              /\ \A k \in 1..Len(q_out[1].cursor) :
                    PipelineWritten(store[q_out[1].cursor[k]])
                        => \E m \in 1..Len(q_out[1].notes) :
                              q_out[1].notes[m].id = q_out[1].cursor[k]

\* the notes that satisfy the status filter of the listing request
ListMatching == {i \in DOMAIN store : q_in.status # None => store[i].status = q_in.status[1]}

\* ---- C28 (ListSpec): for T matching notes, page p and page size s the
\* summary reports total_pages = ceil(T/s), has_previous iff p > 1 and
\* has_next iff p < total_pages; the page is the at most s notes at offset
\* (p-1)*s of the sorted result, so different pages are disjoint and a page
\* beyond total_pages is empty
C28_Pagination ==
    (q_out # None /\ q_in.op = "list" /\ q_out[1].success) =>
        LET T == Cardinality(ListMatching)
            p == q_in.page
            z == q_in.page_size
            sum == q_out[1].summary
            all == sorted(store, ListMatching, q_in.desc)
            page == q_out[1].cursor
        IN /\ sum.total_notes = T
           /\ sum.total_pages * z >= T /\ (sum.total_pages - 1) * z < T
           /\ sum.total_pages >= 0
           /\ sum.has_previous <=> p > 1
           /\ sum.has_next <=> p < sum.total_pages
           /\ Len(page) <= z /\ Len(q_out[1].notes) <= Len(page)
           /\ \A k \in 1..Len(page) :
                 (p - 1) * z + k <= Len(all) /\ page[k] = all[(p - 1) * z + k]
           /\ (p - 1) * z + Len(page) < Len(all) => Len(page) = z
           /\ p > sum.total_pages => page = <<>>
           /\ \A p2 \in 1..(MaxListNotes + 1) :
                 p2 # p =>
                    Range(get_paginated_notes(store, p2, z, q_in.desc,
                                              Some(ListFilters(q_in.status)), TRUE).cursor)
                      \cap Range(page) = {}

\* the second of three pages of one note each
C28_Witness ==
    /\ q_out # None /\ q_in.op = "list" /\ q_out[1].success
    /\ q_in.page = 2 /\ q_in.page_size = 1
    /\ q_out[1].summary.total_pages = 3
    /\ q_out[1].summary.has_next /\ q_out[1].summary.has_previous
    /\ Len(q_out[1].notes) = 1
====
